---- MODULE Spec2Model ----
(***************************************************************************)
(* Message relay pipeline of the OnionBot Discord chatbot.                 *)
(*                                                                         *)
(* The repository holds three variants of the pipeline:                    *)
(*   "v1"    src/_main.js lines 1-159   queue, rate limiter, retry timer   *)
(*   "v2"    src/_main.js lines 160-356 queue, processed set, edit reuse,  *)
(*                                       reply-chain walk                  *)
(*   "m0603" src/main_0603.js           unqueued messageCreate handler,    *)
(*                                       retention sweeper, shutdown       *)
(* The variable variant, fixed by Init, says which one is running.         *)
(*                                                                         *)
(* Every await of the source is a suspension point: the action that        *)
(* resumes a handler at an await decides the outcome of the awaited call   *)
(* (gateway and language-model calls fail or succeed) and runs the code    *)
(* up to the next await.                                                   *)
(***************************************************************************)
EXTENDS Integers, Sequences, FiniteSets, TLC

\* ----------------------------------------------------------------- bounds
MaxEvents == 2      \* gateway events delivered in one behaviour
MaxWorkers == 2     \* processQueue invocations that may exist side by side
MaxPosts == 2       \* messages the pipeline can post before the gateway refuses
MaxFaults == 2      \* failed external calls and cache expiries in one behaviour
MaxTicks == 1       \* frame advances of one animation interval
MaxDialog == 3      \* turns collected by one chain walk before the model stops
MaxAdvances == 2
MaxCache == 3    \* advances of the clock in one behaviour

\* ------------------------------------------------------ program constants
MAX_MESSAGE_LENGTH == 3000
MAX_DISCORD_MESSAGE_LENGTH == 1950
RATE_LIMIT_POINTS == 5
MAX_RETRY_ATTEMPTS == 2
NUM_LOADING_FRAMES == 11

\* User messages get the ids 1, 2, ... in the order of their creation; the
\* messages the pipeline posts get the ids after them.
MsgIds == 1..MaxEvents
FirstBotId == MaxEvents + 1
LastBotId == MaxEvents + MaxPosts
BotIds == FirstBotId..LastBotId
Workers == 1..MaxWorkers

SelfBot == "self"
OtherBot == "otherbot"
Users == {"u1"}
Bots == {SelfBot, OtherBot}

\* A text is abstracted to the class of its characters and its length.
Text(k, n) == [kind |-> k, len |-> n]
NoText == Text("none", 0)
UserTexts == {Text("alpha", 5), Text("alpha", 3000), Text("emoji", 2), Text("emoji", 3050)}

Frame(i) == Text("frame", i)
LENGTH_WARNING_MESSAGE == Text("warning", 66)
ERROR_MESSAGE == Text("error", 50)

\* Texts the language model may return.  "sentinel" contains the phrase
\* "not translatable"; a text of length 0 is the empty / null completion.
Responses == {Text("resp", 7), Text("resp", 0), Text("sentinel", 16), Text("resp", 1951)}
NoResp == NoText

\* isTranslatableText of _main.js (second variant): blank, emoji/punctuation
\* only and digits only are rejected.
isTranslatableText(text) ==
    /\ text.len > 0
    /\ text.kind \notin {"blank", "emoji", "digits"}

\* A queue item: the fields of the gateway event that the code reads, retryCount,
\* plain (the item is the Object.assign copy made for a retry, which has the data
\* fields of the message and none of its methods), and two history fields: seq,
\* the arrival number of the event, and ver, the number of edits of the
\* message's text before the event.
NoMsg == [id |-> 0, author |-> "none", text |-> NoText, reference |-> 0,
          retryCount |-> 0, plain |-> FALSE, seq |-> 0, ver |-> 0]

NoWorker == [pc |-> "none", message |-> NoMsg, hasReply |-> FALSE,
             loadingMessage |-> 0, loadingInterval |-> 0, loadingTimeout |-> 0,
             response |-> NoResp, dialog |-> <<>>, lastChainId |-> 0,
             responseLeft |-> 0, prevMessage |-> 0, err |-> "none"]

VARIABLES
    variant,             \* which variant of the pipeline runs
    gw,                  \* user messages that exist at the gateway: id -> record
    chan,                \* messages posted by the pipeline: id -> record
    nextId,              \* id the gateway gives to the next posted message
    arrivals,            \* number of gateway events delivered so far
    faults,              \* number of failed external calls so far
    messageQueue,        \* messageQueue
    isProcessingQueue,   \* isProcessingQueue
    workers,             \* processQueue invocations and their handleMessage frame
    processedMessages,   \* processedMessages (v2)
    originalToReplyMap,  \* originalToReplyMap (v2)
    messageCache,        \* messageCache
    thisBotMessages,     \* thisBotMessages
    intervals,           \* active setInterval handles -> frameIndex
    timeouts,            \* pending setTimeout handles of loadingTimeout (v2)
    consumed,            \* rateLimiter (v1): author -> points consumed in the window
    retryTimers,         \* pending setTimeout(() => enqueueMessage(retryMessage)) (v1)
    allMessages,         \* allMessages (m0603): id -> record
    handlers,            \* running messageCreate handlers (m0603): message id -> frame
    needShutdown,        \* needShutdown (m0603)
    currentProcessingMessaged, \* currentProcessingMessaged (m0603)
    polling,             \* a signal handler is in its polling loop (m0603)
    exited,              \* process.exit(0) was called (m0603)
    now,                 \* Date.now(), in ms since the start (m0603)
    advances,            \* number of clock advances so far (m0603)
    replyLog,            \* history: arrival numbers of the events, in the order of their replies
    placeholders,        \* history: <<id, ver>> -> number of placeholders posted for it
    passed,              \* history: author -> events let through by the limiter in the window
    pass,                \* history: the queue item of the latest handleMessage invocation
    ownHandled,          \* history: ids of the own messages whose event has been handled
    inflight,            \* frame edits issued by an interval and not awaited: <<handle, frame>>
    expired              \* history: placeholders posted more than MAX_LOADING_DURATION_MS ago

vars == <<variant, gw, chan, nextId, arrivals, faults, messageQueue, isProcessingQueue,
          workers, processedMessages, originalToReplyMap, messageCache, thisBotMessages,
          intervals, timeouts, consumed, retryTimers, placeholders, passed, pass, ownHandled,
          inflight, expired, allMessages, handlers, needShutdown, currentProcessingMessaged, polling, exited,
          now, advances, replyLog>>

\* the variables of main_0603.js that neither variant of _main.js has
OnlyM == <<allMessages, handlers, needShutdown, currentProcessingMessaged, polling, exited,
           now, advances, replyLog>>

\* the variables that the second variant of _main.js does not have
NotV2 == <<consumed, retryTimers, passed, OnlyM>>
\* the variables that the first variant of _main.js does not have
NotV1 == <<processedMessages, originalToReplyMap, timeouts, OnlyM>>
\* the variables that main_0603.js does not have
NotM == <<messageQueue, isProcessingQueue, workers, processedMessages, originalToReplyMap,
          messageCache, intervals, timeouts, consumed, retryTimers, placeholders, passed, pass, ownHandled,
          inflight, expired>>

\* ------------------------------------------------------------ small helpers
Remove(f, k) == [x \in DOMAIN f \ {k} |-> f[x]]
Put(f, k, v) == [x \in DOMAIN f \cup {k} |-> IF x = k THEN v ELSE f[x]]
EmptyMap == [x \in {} |-> 0]
Reverse(s) == [i \in 1..Len(s) |-> s[Len(s) + 1 - i]]


\* A worker is a processQueue invocation.  pc "none": no such invocation;
\* "loop": at the while condition (await handleMessage about to resume);
\* "dead": the invocation ended by an exception that handleMessage let through;
\* every other pc is the await at which its handleMessage is suspended.
InHandler(w) == workers[w].pc \notin {"none", "loop", "dead"}
Running(w) == workers[w].pc \notin {"none", "dead"}
AtLoop == [NoWorker EXCEPT !.pc = "loop"]
Dead == [NoWorker EXCEPT !.pc = "dead"]
FreeWorker == CHOOSE w \in Workers :
                 /\ workers[w].pc = "none"
                 /\ \A v \in Workers : v < w => workers[v].pc # "none"
HasFreeWorker == \E w \in Workers : workers[w].pc = "none"

\* An external call can fail while the fault budget lasts.
CanFail == faults < MaxFaults
\* The gateway accepts a new post while it has ids left.
CanPost == nextId <= LastBotId
CountFault == faults' = IF faults < MaxFaults THEN faults + 1 ELSE faults

Post(text, to) == Put(chan, nextId, [text |-> text, replyTo |-> to, alive |-> TRUE])
Edit(id, text) == [chan EXCEPT ![id].text = text]
\* A deletion that leaves the message posted: C15 fails with it.
KeepPosted(id) == chan
Delete(id) == [chan EXCEPT ![id].alive = FALSE]
Alive(id) == id \in DOMAIN chan /\ chan[id].alive
\* History: the version of a gateway message after an update to text.
NextVer(g, text) == IF text = g.text THEN g.ver ELSE g.ver + 1
\* History: one more placeholder posted for the event m.
CountPlaceholder(m) ==
    LET k == <<m.id, m.ver>>
    IN Put(placeholders, k, IF k \in DOMAIN placeholders THEN placeholders[k] + 1 ELSE 1)

\* History: the event of m has been handled; m is recorded when it is an own message.
HandledOwn(m) == IF m.author = SelfBot THEN ownHandled \cup {m.id} ELSE ownHandled

\* ==================================================================== v2
\* src/_main.js lines 160-356

\* enqueueMessage without the test of the flag: C3 fails with it.
AlwaysStartQueue == TRUE
\* if (!isProcessingQueue) processQueue();
ShouldStartQueue == ~isProcessingQueue

\* if (wasProcessed && !hasReply) return;
AlreadyProcessed(id) == id \in processedMessages /\ id \notin DOMAIN originalToReplyMap

\* messageCache.set(message.id, {text, reference, author})
CacheRecord(m) == [text |-> m.text, reference |-> m.reference, author |-> m.author]

\* handleMessage from its entry to its first await (or to its return).
HandleMessageV2(w, m, rest) ==
    /\ messageQueue' = rest
    /\ pass' = m
    /\ ownHandled' = HandledOwn(m)
    /\ IF m.author \in Bots \/ AlreadyProcessed(m.id)
       THEN /\ workers' = [workers EXCEPT ![w] = AtLoop]
            /\ UNCHANGED <<processedMessages, messageCache>>
       ELSE /\ processedMessages' = processedMessages \cup {m.id}
            /\ IF m.text.len >= MAX_MESSAGE_LENGTH
               THEN /\ workers' = [workers EXCEPT ![w] =
                          [NoWorker EXCEPT !.pc = "warn", !.message = m,
                                           !.hasReply = m.id \in DOMAIN originalToReplyMap]]
                    /\ UNCHANGED messageCache
               ELSE IF ~isTranslatableText(m.text)
               THEN /\ workers' = [workers EXCEPT ![w] = AtLoop]
                    /\ UNCHANGED messageCache
               ELSE /\ messageCache' = Put(messageCache, m.id, CacheRecord(m))
                    /\ workers' = [workers EXCEPT ![w] =
                          [NoWorker EXCEPT !.pc = "ph", !.message = m,
                                           !.hasReply = m.id \in DOMAIN originalToReplyMap]]

\* processQueue from its entry: the flag, the first shift, the first handleMessage.
ProcessQueueV2(queue) ==
    /\ HasFreeWorker
    /\ isProcessingQueue' = TRUE
    /\ HandleMessageV2(FreeWorker, Head(queue), Tail(queue))

\* enqueueMessage
EnqueueMessageV2(m) ==
    IF m.author \in Bots
    THEN /\ ownHandled' = HandledOwn(m)
         /\ UNCHANGED <<messageQueue, isProcessingQueue, workers, processedMessages, pass,
                        messageCache>>
    ELSE IF ShouldStartQueue
    THEN ProcessQueueV2(Append(messageQueue, m))
    ELSE /\ messageQueue' = Append(messageQueue, m)
         /\ UNCHANGED <<isProcessingQueue, workers, processedMessages, pass, ownHandled, messageCache>>

\* discordClient.on('messageCreate'): a user posts message id.
MessageCreateV2(id, author, text, ref) ==
    /\ variant = "v2"
    /\ arrivals < MaxEvents
    /\ id = Cardinality(DOMAIN gw) + 1
    /\ ref \in MsgIds \cup {0} \/ Alive(ref)
    /\ gw' = Put(gw, id, [author |-> author, text |-> text, reference |-> ref, ver |-> 0])
    /\ arrivals' = arrivals + 1
    /\ EnqueueMessageV2([id |-> id, author |-> author, text |-> text, reference |-> ref,
                         retryCount |-> 0, plain |-> FALSE, seq |-> arrivals + 1, ver |-> 0])
    /\ UNCHANGED <<NotV2, variant, chan, nextId, faults, originalToReplyMap, thisBotMessages,
                   intervals, timeouts, placeholders, inflight, expired>>

\* discordClient.on('messageCreate') for a message the pipeline posted itself.
OwnMessageCreateV2(b) ==
    /\ variant = "v2"
    /\ arrivals < MaxEvents
    /\ Alive(b)
    /\ arrivals' = arrivals + 1
    /\ EnqueueMessageV2([id |-> b, author |-> SelfBot, text |-> chan[b].text,
                         reference |-> chan[b].replyTo, retryCount |-> 0, plain |-> FALSE,
                         seq |-> arrivals + 1, ver |-> 0])
    /\ UNCHANGED <<NotV2, variant, gw, chan, nextId, faults, originalToReplyMap, thisBotMessages,
                   intervals, timeouts, placeholders, inflight, expired>>

\* discordClient.on('messageUpdate'): message id is updated; text is its content
\* after the update (the same content when the update is no edit of the text).
MessageUpdateV2(id, text) ==
    /\ variant = "v2"
    /\ arrivals < MaxEvents
    /\ id \in DOMAIN gw
    /\ gw' = [gw EXCEPT ![id].text = text, ![id].ver = NextVer(gw[id], text)]
    /\ arrivals' = arrivals + 1
    /\ IF text.len = 0 \/ gw[id].author \in Bots
       THEN UNCHANGED <<messageQueue, isProcessingQueue, workers, processedMessages, pass, ownHandled, messageCache>>
       ELSE EnqueueMessageV2([id |-> id, author |-> gw[id].author, text |-> text,
                              reference |-> gw[id].reference, retryCount |-> 0,
                              plain |-> FALSE, seq |-> arrivals + 1,
                              ver |-> NextVer(gw[id], text)])
    /\ UNCHANGED <<NotV2, variant, chan, nextId, faults, originalToReplyMap, thisBotMessages,
                   intervals, timeouts, placeholders, inflight, expired>>

\* processQueue resumed after `await handleMessage(nextMessage)`.
ProcessNextV2(w) ==
    /\ variant = "v2"
    /\ workers[w].pc = "loop"
    /\ IF messageQueue = <<>>
       THEN /\ isProcessingQueue' = FALSE
            /\ workers' = [workers EXCEPT ![w] = NoWorker]
            /\ UNCHANGED <<messageQueue, processedMessages, pass, ownHandled, messageCache>>
       ELSE /\ HandleMessageV2(w, Head(messageQueue), Tail(messageQueue))
            /\ UNCHANGED isProcessingQueue
    /\ UNCHANGED <<NotV2, variant, gw, chan, nextId, arrivals, faults, originalToReplyMap,
                   thisBotMessages, intervals, timeouts, placeholders, inflight, expired>>


\* --------------------------------------------------- v2: handleMessage

\* clearInterval(loadingInterval), on the success path and in the catch block
ClearIntervalSuccess(iv, h) == Remove(iv, h)
\* A catch block that leaves the interval running: C7 fails with it.
KeepInterval(iv, h) == iv
ClearIntervalCatch(iv, h) == Remove(iv, h)

\* The catch block of handleMessage up to its first await.  err is the caught
\* error: "lm" when the call of the language model rejected, else "gateway".
CatchV2(w, err) ==
    LET wr == workers[w]
    IN /\ intervals' = ClearIntervalCatch(intervals, wr.loadingInterval)
       /\ timeouts' = timeouts \ {wr.loadingTimeout}
       /\ workers' = [workers EXCEPT ![w].err = err,
                                     ![w].pc =
                         IF wr.hasReply THEN "err_fetch"
                         ELSE IF wr.loadingMessage # 0 THEN "err_edit"
                         ELSE "err_reply"]

\* handleMessage returns / lets an exception through to processQueue.
Return(w) == workers' = [workers EXCEPT ![w] = AtLoop]
Throw(w) == workers' = [workers EXCEPT ![w] = Dead]

\* await message.reply(LENGTH_WARNING_MESSAGE)
WarnDoneV2(w) ==
    /\ variant = "v2"
    /\ workers[w].pc = "warn"
    /\ \/ /\ CanPost
          /\ chan' = Post(LENGTH_WARNING_MESSAGE, workers[w].message.id)
          /\ nextId' = nextId + 1
          /\ Return(w)
          /\ UNCHANGED faults
       \/ /\ CanFail \/ ~CanPost
          /\ CountFault
          /\ Throw(w)
          /\ UNCHANGED <<chan, nextId>>
    /\ UNCHANGED <<NotV2, variant, gw, arrivals, messageQueue, isProcessingQueue, processedMessages, pass, ownHandled,
                   originalToReplyMap, messageCache, thisBotMessages, intervals, timeouts,
                   placeholders, inflight, expired>>

\* loadingMessage = await message.reply(LOADING_FRAMES[0]); setInterval; setTimeout;
\* generateResponse up to `await discordClient.channels.fetch(channelId)`
PlaceholderDoneV2(w) ==
    /\ variant = "v2"
    /\ workers[w].pc = "ph"
    /\ \/ /\ CanPost
          /\ chan' = Post(Frame(0), workers[w].message.id)
          /\ nextId' = nextId + 1
          /\ intervals' = Put(intervals, nextId, 1)
          /\ timeouts' = timeouts \cup {nextId}
          /\ placeholders' = CountPlaceholder(workers[w].message)
          /\ UNCHANGED <<inflight, expired>>
          /\ workers' = [workers EXCEPT ![w].pc = "gen_chan",
                                        ![w].loadingMessage = nextId,
                                        ![w].loadingInterval = nextId,
                                        ![w].loadingTimeout = nextId,
                                        ![w].lastChainId = workers[w].message.id]
          /\ UNCHANGED faults
       \/ /\ CanFail \/ ~CanPost
          /\ CountFault
          /\ CatchV2(w, "gateway")
          /\ UNCHANGED <<chan, nextId, placeholders, inflight, expired>>
    /\ UNCHANGED <<NotV2, variant, gw, arrivals, messageQueue, isProcessingQueue, processedMessages, pass, ownHandled,
                   originalToReplyMap, messageCache, thisBotMessages>>

\* const channel = await discordClient.channels.fetch(channelId);
FetchChannelDoneV2(w) ==
    /\ variant = "v2"
    /\ workers[w].pc = "gen_chan"
    /\ \/ /\ workers' = [workers EXCEPT ![w].pc = "walk"]
          /\ UNCHANGED <<faults, intervals, timeouts>>
       \/ /\ CanFail
          /\ CountFault
          /\ CatchV2(w, "gateway")
    /\ UNCHANGED <<NotV2, variant, gw, chan, nextId, arrivals, messageQueue, isProcessingQueue,
                   processedMessages, pass, ownHandled, originalToReplyMap, messageCache, thisBotMessages,
                   placeholders, inflight, expired>>

\* One dialog turn; id is a history field (the message the turn was built from).
Turn(id, cached) ==
    [role |-> IF id \in thisBotMessages THEN "assistant" ELSE "user",
     content |-> cached.text, name |-> cached.author, id |-> id]
SystemTurn == [role |-> "system", content |-> Text("prompt", 0), name |-> "none", id |-> 0]

\* The end of the walk without dialog.reverse(): C4 fails with it.
FinishDialogUnreversed(dialog) == Append(dialog, SystemTurn)
\* dialog.reverse(); dialog.push({role: 'system', ...})
FinishDialog(dialog) == Append(Reverse(dialog), SystemTurn)

\* The part of one iteration of the chain walk after the record of lastChainId
\* is in the cache: push the turn, then stop at a root, else follow the reference.
\* The walk ends by calling the language model with the finished dialog.
WalkPush(wr, cached) ==
    LET dialog == Append(wr.dialog, Turn(wr.lastChainId, cached))
    IN IF cached.reference = 0
       THEN [wr EXCEPT !.pc = "lm", !.dialog = FinishDialog(dialog)]
       ELSE [wr EXCEPT !.pc = "walk", !.dialog = dialog, !.lastChainId = cached.reference]

\* An iteration of `while (true)` that starts at the cache lookup.
WalkStepV2(w) ==
    /\ variant = "v2"
    /\ workers[w].pc = "walk"
    /\ Len(workers[w].dialog) < MaxDialog
    /\ workers' = [workers EXCEPT ![w] =
          IF workers[w].lastChainId \in DOMAIN messageCache
          THEN WalkPush(workers[w], messageCache[workers[w].lastChainId])
          ELSE [workers[w] EXCEPT !.pc = "walk_fetch"]]
    /\ UNCHANGED <<NotV2, variant, gw, chan, nextId, arrivals, faults, messageQueue, isProcessingQueue,
                   processedMessages, pass, ownHandled, originalToReplyMap, messageCache, thisBotMessages,
                   intervals, timeouts, placeholders, inflight, expired>>

\* What channel.messages.fetch(id) returns for a message that exists.
Resolvable(id) == id \in DOMAIN gw \/ Alive(id)
GatewayRecord(id) ==
    IF id \in DOMAIN gw
    THEN [text |-> gw[id].text, reference |-> gw[id].reference, author |-> gw[id].author]
    ELSE [text |-> chan[id].text, reference |-> chan[id].replyTo, author |-> SelfBot]

\* const msg = await channel.messages.fetch(lastChainId).catch(() => null);
WalkFetchDoneV2(w) ==
    /\ variant = "v2"
    /\ workers[w].pc = "walk_fetch"
    /\ \/ /\ Resolvable(workers[w].lastChainId)
          /\ messageCache' = Put(messageCache, workers[w].lastChainId,
                                 GatewayRecord(workers[w].lastChainId))
          /\ workers' = [workers EXCEPT ![w] =
                            WalkPush(workers[w], GatewayRecord(workers[w].lastChainId))]
          /\ UNCHANGED faults
       \/ /\ CanFail \/ ~Resolvable(workers[w].lastChainId)
          /\ CountFault
          /\ workers' = [workers EXCEPT ![w].pc = "lm",
                                        ![w].dialog = FinishDialog(workers[w].dialog)]
          /\ UNCHANGED messageCache
    /\ UNCHANGED <<NotV2, variant, gw, chan, nextId, arrivals, messageQueue, isProcessingQueue,
                   processedMessages, pass, ownHandled, originalToReplyMap, thisBotMessages,
                   intervals, timeouts, placeholders, inflight, expired>>

\* if (!response || response.toLowerCase().includes(NOT_TRANSLATABLE_KEYWORD))
NotNeeded(response) == response.len = 0 \/ response.kind = "sentinel"

\* const res = await openaiClient.chat.completions.create(...); clearInterval;
\* clearTimeout; the branches up to their first await
ModelDoneV2(w, response) ==
    /\ variant = "v2"
    /\ workers[w].pc = "lm"
    /\ intervals' = ClearIntervalSuccess(intervals, workers[w].loadingInterval)
    /\ timeouts' = timeouts \ {workers[w].loadingTimeout}
    /\ workers' = [workers EXCEPT ![w].response = response,
                                  ![w].dialog = <<>>,
                                  ![w].pc = IF NotNeeded(response) THEN "del_sentinel"
                                            ELSE IF workers[w].hasReply THEN "reuse_fetch"
                                            ELSE "final_edit"]
    /\ UNCHANGED <<NotV2, variant, gw, chan, nextId, arrivals, faults, messageQueue, isProcessingQueue,
                   processedMessages, pass, ownHandled, originalToReplyMap, messageCache, thisBotMessages,
                   placeholders, inflight, expired>>

\* openaiClient.chat.completions.create rejects.
ModelFailV2(w) ==
    /\ variant = "v2"
    /\ workers[w].pc = "lm"
    /\ CanFail
    /\ CountFault
    /\ CatchV2(w, "lm")
    /\ UNCHANGED <<NotV2, variant, gw, chan, nextId, arrivals, messageQueue, isProcessingQueue,
                   processedMessages, pass, ownHandled, originalToReplyMap, messageCache, thisBotMessages,
                   placeholders, inflight, expired>>


\* unchanged by every step of handleMessage after its first await
QueueSide == <<pass, ownHandled, NotV2, variant, gw, arrivals, messageQueue, isProcessingQueue, processedMessages>>

\* await loadingMessage.delete().catch(() => null); return;   (not-needed branch)
DeleteNotNeededV2(w) ==
    /\ variant = "v2"
    /\ workers[w].pc = "del_sentinel"
    /\ \/ /\ chan' = Delete(workers[w].loadingMessage)
          /\ UNCHANGED faults
       \/ /\ CanFail
          /\ CountFault
          /\ UNCHANGED chan
    /\ Return(w)
    /\ UNCHANGED <<QueueSide, nextId, originalToReplyMap, messageCache, thisBotMessages,
                   intervals, timeouts, placeholders, inflight, expired>>

\* const existing = await message.channel.messages.fetch(originalToReplyMap.get(message.id))
\*                        .catch(() => null);                 (success path)
ReuseFetchDoneV2(w) ==
    /\ variant = "v2"
    /\ workers[w].pc = "reuse_fetch"
    /\ \/ /\ Alive(originalToReplyMap[workers[w].message.id])
          /\ workers' = [workers EXCEPT ![w].pc = "reuse_edit"]
          /\ UNCHANGED faults
       \/ /\ CanFail \/ ~Alive(originalToReplyMap[workers[w].message.id])
          /\ CountFault
          /\ workers' = [workers EXCEPT ![w].pc = "final_edit"]
    /\ UNCHANGED <<QueueSide, chan, nextId, originalToReplyMap, messageCache, thisBotMessages,
                   intervals, timeouts, placeholders, inflight, expired>>

\* await existing.edit(response);
ReuseEditDoneV2(w) ==
    /\ variant = "v2"
    /\ workers[w].pc = "reuse_edit"
    /\ \/ /\ Alive(originalToReplyMap[workers[w].message.id])
          /\ chan' = Edit(originalToReplyMap[workers[w].message.id], workers[w].response)
          /\ workers' = [workers EXCEPT ![w].pc = "reuse_del"]
          /\ UNCHANGED <<faults, intervals, timeouts>>
       \/ /\ CanFail \/ ~Alive(originalToReplyMap[workers[w].message.id])
          /\ CountFault
          /\ CatchV2(w, "gateway")
          /\ UNCHANGED chan
    /\ UNCHANGED <<QueueSide, nextId, originalToReplyMap, messageCache, thisBotMessages,
                   placeholders, inflight, expired>>

\* await loadingMessage.delete().catch(() => null); return;   (after a reuse)
ReuseDeleteDoneV2(w) ==
    /\ variant = "v2"
    /\ workers[w].pc \in {"reuse_del", "err_reuse_del"}
    /\ \/ /\ chan' = Delete(workers[w].loadingMessage)
          /\ UNCHANGED faults
       \/ /\ CanFail
          /\ CountFault
          /\ UNCHANGED chan
    /\ Return(w)
    /\ UNCHANGED <<QueueSide, nextId, originalToReplyMap, messageCache, thisBotMessages,
                   intervals, timeouts, placeholders, inflight, expired>>

\* await loadingMessage.edit(response); thisBotMessages.add; originalToReplyMap.set
FinalEditDoneV2(w) ==
    /\ variant = "v2"
    /\ workers[w].pc = "final_edit"
    /\ \/ /\ Alive(workers[w].loadingMessage)
          /\ chan' = Edit(workers[w].loadingMessage, workers[w].response)
          /\ thisBotMessages' = thisBotMessages \cup {workers[w].loadingMessage}
          /\ originalToReplyMap' = Put(originalToReplyMap, workers[w].message.id,
                                       workers[w].loadingMessage)
          /\ Return(w)
          /\ UNCHANGED <<faults, intervals, timeouts>>
       \/ /\ CanFail \/ ~Alive(workers[w].loadingMessage)
          /\ CountFault
          /\ CatchV2(w, "gateway")
          /\ UNCHANGED <<chan, thisBotMessages, originalToReplyMap>>
    /\ UNCHANGED <<QueueSide, nextId, messageCache, placeholders, inflight, expired>>

\* const existing = await ...fetch(originalToReplyMap.get(message.id)).catch(() => null);
\*                                                            (catch block)
ErrorFetchDoneV2(w) ==
    /\ variant = "v2"
    /\ workers[w].pc = "err_fetch"
    /\ \/ /\ Alive(originalToReplyMap[workers[w].message.id])
          /\ workers' = [workers EXCEPT ![w].pc = "err_reuse_edit"]
          /\ UNCHANGED faults
       \/ /\ CanFail \/ ~Alive(originalToReplyMap[workers[w].message.id])
          /\ CountFault
          /\ workers' = [workers EXCEPT ![w].pc =
                            IF workers[w].loadingMessage # 0 THEN "err_edit" ELSE "err_reply"]
    /\ UNCHANGED <<QueueSide, chan, nextId, originalToReplyMap, messageCache, thisBotMessages,
                   intervals, timeouts, placeholders, inflight, expired>>

\* await existing.edit(ERROR_MESSAGE); then loadingMessage.delete() is called:
\* with loadingMessage undefined that call throws a TypeError.
ErrorReuseEditDoneV2(w) ==
    /\ variant = "v2"
    /\ workers[w].pc = "err_reuse_edit"
    /\ \/ /\ Alive(originalToReplyMap[workers[w].message.id])
          /\ chan' = Edit(originalToReplyMap[workers[w].message.id], ERROR_MESSAGE)
          /\ IF workers[w].loadingMessage = 0
             THEN Throw(w)
             ELSE workers' = [workers EXCEPT ![w].pc = "err_reuse_del"]
          /\ UNCHANGED faults
       \/ /\ CanFail \/ ~Alive(originalToReplyMap[workers[w].message.id])
          /\ CountFault
          /\ Throw(w)
          /\ UNCHANGED chan
    /\ UNCHANGED <<QueueSide, nextId, originalToReplyMap, messageCache, thisBotMessages,
                   intervals, timeouts, placeholders, inflight, expired>>

\* await loadingMessage.edit(ERROR_MESSAGE);
ErrorEditDoneV2(w) ==
    /\ variant = "v2"
    /\ workers[w].pc = "err_edit"
    /\ \/ /\ Alive(workers[w].loadingMessage)
          /\ chan' = Edit(workers[w].loadingMessage, ERROR_MESSAGE)
          /\ Return(w)
          /\ UNCHANGED faults
       \/ /\ CanFail \/ ~Alive(workers[w].loadingMessage)
          /\ CountFault
          /\ Throw(w)
          /\ UNCHANGED chan
    /\ UNCHANGED <<QueueSide, nextId, originalToReplyMap, messageCache, thisBotMessages,
                   intervals, timeouts, placeholders, inflight, expired>>

\* await message.reply(ERROR_MESSAGE);
ErrorReplyDoneV2(w) ==
    /\ variant = "v2"
    /\ workers[w].pc = "err_reply"
    /\ \/ /\ CanPost
          /\ chan' = Post(ERROR_MESSAGE, workers[w].message.id)
          /\ nextId' = nextId + 1
          /\ Return(w)
          /\ UNCHANGED faults
       \/ /\ CanFail \/ ~CanPost
          /\ CountFault
          /\ Throw(w)
          /\ UNCHANGED <<chan, nextId>>
    /\ UNCHANGED <<QueueSide, originalToReplyMap, messageCache, thisBotMessages,
                   intervals, timeouts, placeholders, inflight, expired>>


\* ==================================================================== v1
\* src/_main.js lines 1-159

\* rateLimiter.consume(key): the point is counted first; the call rejects when
\* more than RATE_LIMIT_POINTS points are counted in the window.
\* A limiter that rejects one event later: C10 fails with it.
AllowedOneMore(points) == points <= RATE_LIMIT_POINTS
Allowed(points) == points + 1 <= RATE_LIMIT_POINTS
Consume(points) == IF points <= RATE_LIMIT_POINTS THEN points + 1 ELSE points

\* const retryCount = message.retryCount || 0; if (retryCount < MAX_RETRY_ATTEMPTS)
MayRetry(m) == m.retryCount < MAX_RETRY_ATTEMPTS
\* Object.assign({}, message, { retryCount: retryCount + 1 })
RetryMessage(m) == [m EXCEPT !.retryCount = m.retryCount + 1, !.plain = TRUE]

\* The catch block of the placeholder post: schedule the retry or give up.
ScheduleRetry(m, timers) == IF MayRetry(m) THEN timers \cup {RetryMessage(m)} ELSE timers

\* handleMessage from its entry to its first await (or to its return).  The
\* awaited rateLimiter.consume settles at the call.  message.reply of a retry
\* copy is not a function: the call throws inside the try block.  timers is the
\* set of pending retry timers at the call.
HandleMessageV1(w, m, rest, timers) ==
    /\ messageQueue' = rest
    /\ pass' = m
    /\ ownHandled' = HandledOwn(m)
    /\ IF m.author \in Bots
       THEN /\ thisBotMessages' = IF m.author = SelfBot THEN thisBotMessages \cup {m.id}
                                  ELSE thisBotMessages
            /\ workers' = [workers EXCEPT ![w] = AtLoop]
            /\ retryTimers' = timers
            /\ UNCHANGED <<consumed, passed, messageCache>>
       ELSE /\ consumed' = [consumed EXCEPT ![m.author] = Consume(@)]
            /\ UNCHANGED thisBotMessages
            /\ IF ~Allowed(consumed[m.author])
               THEN /\ workers' = [workers EXCEPT ![w] = AtLoop]
                    /\ retryTimers' = timers
                    /\ UNCHANGED <<passed, messageCache>>
               ELSE /\ passed' = [passed EXCEPT ![m.author] = @ + 1]
                    /\ IF m.text.len >= MAX_MESSAGE_LENGTH
                       THEN /\ workers' = [workers EXCEPT ![w] =
                                  [NoWorker EXCEPT !.pc = "warn", !.message = m]]
                            /\ retryTimers' = timers
                            /\ UNCHANGED messageCache
                       ELSE IF ~isTranslatableText(m.text)
                       THEN /\ workers' = [workers EXCEPT ![w] = AtLoop]
                            /\ retryTimers' = timers
                            /\ UNCHANGED messageCache
                       ELSE /\ messageCache' = Put(messageCache, m.id, CacheRecord(m))
                            /\ IF m.plain
                               THEN /\ retryTimers' = ScheduleRetry(m, timers)
                                    /\ workers' = [workers EXCEPT ![w] = AtLoop]
                               ELSE /\ workers' = [workers EXCEPT ![w] =
                                          [NoWorker EXCEPT !.pc = "ph", !.message = m]]
                                    /\ retryTimers' = timers

\* processQueue from its entry: the flag, the first shift, the first handleMessage.
ProcessQueueV1(queue, timers) ==
    /\ HasFreeWorker
    /\ isProcessingQueue' = TRUE
    /\ HandleMessageV1(FreeWorker, Head(queue), Tail(queue), timers)

\* enqueueMessage
EnqueueMessageV1(m, timers) ==
    IF ShouldStartQueue
    THEN ProcessQueueV1(Append(messageQueue, m), timers)
    ELSE /\ messageQueue' = Append(messageQueue, m)
         /\ retryTimers' = timers
         /\ UNCHANGED <<isProcessingQueue, workers, thisBotMessages, consumed, passed, pass, ownHandled,
                        messageCache>>

\* discordClient.on('messageCreate'): a user or another bot posts message id.
MessageCreateV1(id, author, text, ref) ==
    /\ variant = "v1"
    /\ arrivals < MaxEvents
    /\ id = Cardinality(DOMAIN gw) + 1
    /\ ref \in MsgIds \cup {0} \/ Alive(ref)
    /\ gw' = Put(gw, id, [author |-> author, text |-> text, reference |-> ref, ver |-> 0])
    /\ arrivals' = arrivals + 1
    /\ EnqueueMessageV1([id |-> id, author |-> author, text |-> text, reference |-> ref,
                         retryCount |-> 0, plain |-> FALSE, seq |-> arrivals + 1, ver |-> 0],
                        retryTimers)
    /\ UNCHANGED <<NotV1, variant, chan, nextId, faults, intervals, placeholders, inflight, expired>>

\* discordClient.on('messageCreate') for a message the pipeline posted itself.
OwnMessageCreateV1(b) ==
    /\ variant = "v1"
    /\ arrivals < MaxEvents
    /\ Alive(b)
    /\ arrivals' = arrivals + 1
    /\ EnqueueMessageV1([id |-> b, author |-> SelfBot, text |-> chan[b].text,
                         reference |-> chan[b].replyTo, retryCount |-> 0, plain |-> FALSE,
                         seq |-> arrivals + 1, ver |-> 0], retryTimers)
    /\ UNCHANGED <<NotV1, variant, gw, chan, nextId, faults, intervals, placeholders, inflight, expired>>

\* discordClient.on('messageUpdate')
MessageUpdateV1(id, text) ==
    /\ variant = "v1"
    /\ arrivals < MaxEvents
    /\ id \in DOMAIN gw
    /\ gw' = [gw EXCEPT ![id].text = text, ![id].ver = NextVer(gw[id], text)]
    /\ arrivals' = arrivals + 1
    /\ IF text.len = 0
       THEN UNCHANGED <<messageQueue, isProcessingQueue, workers, thisBotMessages, consumed,
                        passed, pass, ownHandled, messageCache, retryTimers>>
       ELSE EnqueueMessageV1([id |-> id, author |-> gw[id].author, text |-> text,
                              reference |-> gw[id].reference, retryCount |-> 0,
                              plain |-> FALSE, seq |-> arrivals + 1,
                              ver |-> NextVer(gw[id], text)], retryTimers)
    /\ UNCHANGED <<NotV1, variant, chan, nextId, faults, intervals, placeholders, inflight, expired>>

\* setTimeout(() => enqueueMessage(retryMessage), RETRY_DELAY_MS) fires.
RetryTimerV1(m) ==
    /\ variant = "v1"
    /\ m \in retryTimers
    /\ EnqueueMessageV1(m, retryTimers \ {m})
    /\ UNCHANGED <<NotV1, variant, gw, chan, nextId, arrivals, faults, intervals, placeholders, inflight, expired>>

\* processQueue resumed after `await handleMessage(message)`.
ProcessNextV1(w) ==
    /\ variant = "v1"
    /\ workers[w].pc = "loop"
    /\ IF messageQueue = <<>>
       THEN /\ isProcessingQueue' = FALSE
            /\ workers' = [workers EXCEPT ![w] = NoWorker]
            /\ UNCHANGED <<messageQueue, thisBotMessages, consumed, passed, pass, ownHandled, messageCache,
                           retryTimers>>
       ELSE /\ HandleMessageV1(w, Head(messageQueue), Tail(messageQueue), retryTimers)
            /\ UNCHANGED isProcessingQueue
    /\ UNCHANGED <<NotV1, variant, gw, chan, nextId, arrivals, faults, intervals, placeholders, inflight, expired>>

\* unchanged by every step of the first variant's handleMessage after its first await
QueueSideV1 == <<pass, ownHandled, NotV1, variant, gw, arrivals, messageQueue, isProcessingQueue, consumed,
                 passed, messageCache>>

\* await message.reply(LENGTH_WARNING_MESSAGE); return;
WarnDoneV1(w) ==
    /\ variant = "v1"
    /\ workers[w].pc = "warn"
    /\ \/ /\ CanPost
          /\ chan' = Post(LENGTH_WARNING_MESSAGE, workers[w].message.id)
          /\ nextId' = nextId + 1
          /\ Return(w)
          /\ UNCHANGED faults
       \/ /\ CanFail \/ ~CanPost
          /\ CountFault
          /\ Throw(w)
          /\ UNCHANGED <<chan, nextId>>
    /\ UNCHANGED <<QueueSideV1, thisBotMessages, intervals, retryTimers, placeholders, inflight, expired>>

\* loadingMessage = await message.reply(LOADING_FRAMES[0]); setInterval; on failure the
\* retry; on success the call of generateResponse
PlaceholderDoneV1(w) ==
    /\ variant = "v1"
    /\ workers[w].pc = "ph"
    /\ \/ /\ CanPost
          /\ chan' = Post(Frame(0), workers[w].message.id)
          /\ nextId' = nextId + 1
          /\ intervals' = Put(intervals, nextId, 1)
          /\ placeholders' = CountPlaceholder(workers[w].message)
          /\ UNCHANGED <<inflight, expired>>
          /\ workers' = [workers EXCEPT ![w].pc = "gen",
                                        ![w].loadingMessage = nextId,
                                        ![w].loadingInterval = nextId]
          /\ UNCHANGED <<faults, retryTimers>>
       \/ /\ CanFail \/ ~CanPost
          /\ CountFault
          /\ retryTimers' = ScheduleRetry(workers[w].message, retryTimers)
          /\ Return(w)
          /\ UNCHANGED <<chan, nextId, intervals, placeholders, inflight, expired>>
    /\ UNCHANGED <<QueueSideV1, thisBotMessages>>

\* The catch block of the second try (err as in the second variant): clearInterval(loadingAnimation);
\* await loadingMessage.edit(ERROR_MESSAGE);
CatchV1(w, err) ==
    /\ intervals' = ClearIntervalCatch(intervals, workers[w].loadingInterval)
    /\ workers' = [workers EXCEPT ![w].err = err, ![w].pc = "err_edit"]

\* const response = await generateResponse(...); clearInterval; the branch on the
\* length of the response up to its first await.  responseLeft is the number of
\* characters not delivered yet.
GenerateDoneV1(w, response) ==
    /\ variant = "v1"
    /\ workers[w].pc = "gen"
    /\ intervals' = ClearIntervalSuccess(intervals, workers[w].loadingInterval)
    /\ workers' = [workers EXCEPT
          ![w].response = response,
          ![w].responseLeft = response.len,
          ![w].prevMessage = workers[w].loadingMessage,
          ![w].pc = IF response.len <= MAX_DISCORD_MESSAGE_LENGTH THEN "final_edit"
                    ELSE "chunk_edit"]
    /\ UNCHANGED <<QueueSideV1, chan, nextId, faults, thisBotMessages, retryTimers,
                   placeholders, inflight, expired>>

\* generateResponse rejects.
GenerateFailV1(w) ==
    /\ variant = "v1"
    /\ workers[w].pc = "gen"
    /\ CanFail
    /\ CountFault
    /\ CatchV1(w, "lm")
    /\ UNCHANGED <<QueueSideV1, chan, nextId, thisBotMessages, retryTimers, placeholders, inflight, expired>>

\* await loadingMessage.edit(response); thisBotMessages.add(loadingMessage.id);
FinalEditDoneV1(w) ==
    /\ variant = "v1"
    /\ workers[w].pc = "final_edit"
    /\ \/ /\ Alive(workers[w].loadingMessage)
          /\ chan' = Edit(workers[w].loadingMessage, workers[w].response)
          /\ thisBotMessages' = thisBotMessages \cup {workers[w].loadingMessage}
          /\ Return(w)
          /\ UNCHANGED <<faults, intervals>>
       \/ /\ CanFail \/ ~Alive(workers[w].loadingMessage)
          /\ CountFault
          /\ CatchV1(w, "gateway")
          /\ UNCHANGED <<chan, thisBotMessages>>
    /\ UNCHANGED <<QueueSideV1, nextId, retryTimers, placeholders, inflight, expired>>

\* responseLeft.substring(0, MAX_DISCORD_MESSAGE_LENGTH), as a text
Chunk(left) == Text("resp", IF left <= MAX_DISCORD_MESSAGE_LENGTH THEN left
                            ELSE MAX_DISCORD_MESSAGE_LENGTH)
\* responseLeft.substring(MAX_DISCORD_MESSAGE_LENGTH), as a length
AfterChunk(left) == IF left <= MAX_DISCORD_MESSAGE_LENGTH THEN 0
                    ELSE left - MAX_DISCORD_MESSAGE_LENGTH

\* await prevMessage.edit(responseLeft.substring(0, MAX_DISCORD_MESSAGE_LENGTH));
ChunkEditDoneV1(w) ==
    /\ variant = "v1"
    /\ workers[w].pc = "chunk_edit"
    /\ \/ /\ Alive(workers[w].prevMessage)
          /\ chan' = Edit(workers[w].prevMessage, Chunk(workers[w].responseLeft))
          /\ IF AfterChunk(workers[w].responseLeft) = 0
             THEN Return(w)
             ELSE workers' = [workers EXCEPT
                     ![w].responseLeft = AfterChunk(workers[w].responseLeft),
                     ![w].pc = "chunk_reply"]
          /\ UNCHANGED <<faults, intervals>>
       \/ /\ CanFail \/ ~Alive(workers[w].prevMessage)
          /\ CountFault
          /\ CatchV1(w, "gateway")
          /\ UNCHANGED chan
    /\ UNCHANGED <<QueueSideV1, nextId, thisBotMessages, retryTimers, placeholders, inflight, expired>>

\* const newMessage = await message.reply(s); thisBotMessages.add(newMessage.id);
ChunkReplyDoneV1(w) ==
    /\ variant = "v1"
    /\ workers[w].pc = "chunk_reply"
    /\ \/ /\ CanPost
          /\ chan' = Post(Chunk(workers[w].responseLeft), workers[w].message.id)
          /\ nextId' = nextId + 1
          /\ thisBotMessages' = thisBotMessages \cup {nextId}
          /\ IF AfterChunk(workers[w].responseLeft) = 0
             THEN Return(w)
             ELSE workers' = [workers EXCEPT
                     ![w].responseLeft = AfterChunk(workers[w].responseLeft),
                     ![w].prevMessage = nextId]
          /\ UNCHANGED <<faults, intervals>>
       \/ /\ CanFail \/ ~CanPost
          /\ CountFault
          /\ CatchV1(w, "gateway")
          /\ UNCHANGED <<chan, nextId, thisBotMessages>>
    /\ UNCHANGED <<QueueSideV1, retryTimers, placeholders, inflight, expired>>

\* await loadingMessage.edit(ERROR_MESSAGE);
ErrorEditDoneV1(w) ==
    /\ variant = "v1"
    /\ workers[w].pc = "err_edit"
    /\ \/ /\ Alive(workers[w].loadingMessage)
          /\ chan' = Edit(workers[w].loadingMessage, ERROR_MESSAGE)
          /\ Return(w)
          /\ UNCHANGED faults
       \/ /\ CanFail \/ ~Alive(workers[w].loadingMessage)
          /\ CountFault
          /\ Throw(w)
          /\ UNCHANGED chan
    /\ UNCHANGED <<QueueSideV1, nextId, thisBotMessages, intervals, retryTimers, placeholders, inflight, expired>>

\* The key of an author leaves the limiter's memory when its window ends.
WindowEnd(a) ==
    /\ variant = "v1"
    /\ consumed[a] > 0
    /\ consumed' = [consumed EXCEPT ![a] = 0]
    /\ passed' = [passed EXCEPT ![a] = 0]
    /\ UNCHANGED <<NotV1, variant, gw, chan, nextId, arrivals, faults, messageQueue,
                   isProcessingQueue, workers, messageCache, thisBotMessages, intervals,
                   retryTimers, placeholders, inflight, expired, pass, ownHandled>>

\* ================================================================= m0603
\* src/main_0603.js

\* In main_0603.js thisBotMessages is read in insertion order (the sweeper walks
\* [...thisBotMessages].reverse()): there the variable holds the sequence of the
\* ids in the order of their insertion.
SeqSet(q) == {q[i] : i \in 1..Len(q)}
SeqAdd(q, x) == IF x \in SeqSet(q) THEN q ELSE Append(q, x)
SeqDelete(q, x) == SelectSeq(q, LAMBDA y : y # x)

HOUR == 3600000
usefulMessagesLifetime == 7 * 24 * 3600 * 1000
unusefulMessagesLifetime == 24 * 3600 * 1000
DISCORD_LIMIT_0603 == 2000
CHUNK_LENGTH_0603 == 1950

\* isTranslatableText of main_0603.js: blank text, a bare URL, emoji only, a short
\* kaomoji and text without a letter or digit are rejected.
isTranslatableText0603(text) ==
    /\ text.len > 0
    /\ text.kind \notin {"blank", "url", "emoji"}
    /\ ~(text.kind = "kaomoji" /\ text.len < 15)

APOLOGY == Text("apology", 80)

NoHandler == [pc |-> "none", message |-> NoMsg, response |-> NoResp, responseLeft |-> 0,
              prevMessage |-> 0]

\* allMessages[message.id] = {id, referenceMessageId, time, authorName, text}
MessageData(m, t) == [id |-> m.id, referenceMessageId |-> m.reference, time |-> t,
                      authorName |-> m.author, text |-> m.text]

\* The messageCreate handler from its entry to its first await, which is
\* `await discordClient.channels.fetch(channelId)` in generateResponse_chat.
HandlerM(m) ==
    IF needShutdown \/ ~isTranslatableText0603(m.text) \/ m.text.len >= DISCORD_LIMIT_0603
    THEN UNCHANGED <<allMessages, thisBotMessages, currentProcessingMessaged, handlers>>
    ELSE /\ allMessages' = Put(allMessages, m.id, MessageData(m, now))
         /\ IF m.author \in Bots
            THEN /\ thisBotMessages' = IF m.author = SelfBot
                                       THEN SeqAdd(thisBotMessages, m.id)
                                       ELSE thisBotMessages
                 /\ UNCHANGED <<currentProcessingMessaged, handlers>>
            ELSE /\ currentProcessingMessaged' = currentProcessingMessaged + 1
                 /\ handlers' = Put(handlers, m.id,
                                    [NoHandler EXCEPT !.pc = "gen_chan", !.message = m])
                 /\ UNCHANGED thisBotMessages

\* discordClient.on('messageCreate'): a user or another bot posts message id.
MessageCreateM(id, author, text, ref) ==
    /\ variant = "m0603"
    /\ ~exited
    /\ arrivals < MaxEvents
    /\ id = Cardinality(DOMAIN gw) + 1
    /\ ref \in MsgIds \cup {0} \/ Alive(ref)
    /\ gw' = Put(gw, id, [author |-> author, text |-> text, reference |-> ref, ver |-> 0])
    /\ arrivals' = arrivals + 1
    /\ HandlerM([id |-> id, author |-> author, text |-> text, reference |-> ref,
                 retryCount |-> 0, plain |-> FALSE, seq |-> arrivals + 1, ver |-> 0])
    /\ UNCHANGED <<NotM, variant, chan, nextId, faults, needShutdown, polling, exited, now,
                   advances, replyLog>>

\* discordClient.on('messageCreate') for a message the pipeline posted itself.
OwnMessageCreateM(b) ==
    /\ variant = "m0603"
    /\ ~exited
    /\ arrivals < MaxEvents
    /\ Alive(b)
    /\ arrivals' = arrivals + 1
    /\ HandlerM([id |-> b, author |-> SelfBot, text |-> chan[b].text,
                 reference |-> chan[b].replyTo, retryCount |-> 0, plain |-> FALSE,
                 seq |-> arrivals + 1, ver |-> 0])
    /\ UNCHANGED <<NotM, variant, gw, chan, nextId, faults, needShutdown, polling, exited,
                   now, advances, replyLog>>

\* The handler after generateResponse has returned response: the branch on its
\* length up to the first await.
Respond(h, response) ==
    [h EXCEPT !.response = response, !.responseLeft = response.len,
              !.prevMessage = h.message.id,
              !.pc = IF response.len <= CHUNK_LENGTH_0603 THEN "reply" ELSE "chunk"]

\* await discordClient.channels.fetch(channelId) settles; messageData =
\* allMessages[messageId]; the dialog; the call of the language model.  Reading
\* messageData.text of a record that is gone throws a TypeError, which the catch
\* block of generateResponse turns into the apology text, like a failed fetch.
FetchChannelDoneM(id) ==
    /\ variant = "m0603"
    /\ ~exited
    /\ id \in DOMAIN handlers
    /\ handlers[id].pc = "gen_chan"
    /\ \/ /\ handlers' = [handlers EXCEPT ![id] =
                 IF id \in DOMAIN allMessages THEN [@ EXCEPT !.pc = "lm"]
                 ELSE Respond(@, APOLOGY)]
          /\ UNCHANGED faults
       \/ /\ CanFail
          /\ CountFault
          /\ handlers' = [handlers EXCEPT ![id] = Respond(@, APOLOGY)]
    /\ UNCHANGED <<NotM, variant, gw, chan, nextId, arrivals, thisBotMessages, allMessages,
                   needShutdown, currentProcessingMessaged, polling, exited, now, advances,
                   replyLog>>

\* openaiClient.chat.completions.create resolves; response is the completion after
\* normalizeTranslationFormat (any text: the normalisation changes the length).
ModelDoneM(id, response) ==
    /\ variant = "m0603"
    /\ ~exited
    /\ id \in DOMAIN handlers
    /\ handlers[id].pc = "lm"
    /\ handlers' = [handlers EXCEPT ![id] = Respond(@, response)]
    /\ UNCHANGED <<NotM, variant, gw, chan, nextId, arrivals, faults, thisBotMessages,
                   allMessages, needShutdown, currentProcessingMessaged, polling, exited, now,
                   advances, replyLog>>

\* openaiClient.chat.completions.create rejects: the catch block of generateResponse.
ModelFailM(id) ==
    /\ variant = "m0603"
    /\ ~exited
    /\ id \in DOMAIN handlers
    /\ handlers[id].pc = "lm"
    /\ CanFail
    /\ CountFault
    /\ handlers' = [handlers EXCEPT ![id] = Respond(@, APOLOGY)]
    /\ UNCHANGED <<NotM, variant, gw, chan, nextId, arrivals, thisBotMessages, allMessages,
                   needShutdown, currentProcessingMessaged, polling, exited, now, advances,
                   replyLog>>

\* const newMessage = await message.reply(response); thisBotMessages.add;
\* currentProcessingMessaged--.  A rejected reply ends the handler at the await.
ReplyDoneM(id) ==
    /\ variant = "m0603"
    /\ ~exited
    /\ id \in DOMAIN handlers
    /\ handlers[id].pc = "reply"
    /\ \/ /\ CanPost
          /\ chan' = Post(handlers[id].response, id)
          /\ nextId' = nextId + 1
          /\ thisBotMessages' = SeqAdd(thisBotMessages, nextId)
          /\ currentProcessingMessaged' = currentProcessingMessaged - 1
          /\ replyLog' = Append(replyLog, handlers[id].message.seq)
          /\ UNCHANGED faults
       \/ /\ CanFail \/ ~CanPost
          /\ CountFault
          /\ UNCHANGED <<chan, nextId, thisBotMessages, currentProcessingMessaged, replyLog>>
    /\ handlers' = Remove(handlers, id)
    /\ UNCHANGED <<NotM, variant, gw, arrivals, allMessages, needShutdown, polling, exited,
                   now, advances>>

\* const newMessage = await prevMessage.reply(s); thisBotMessages.add; the next
\* iteration, or currentProcessingMessaged-- after the last chunk.
ChunkReplyDoneM(id) ==
    /\ variant = "m0603"
    /\ ~exited
    /\ id \in DOMAIN handlers
    /\ handlers[id].pc = "chunk"
    /\ \/ /\ CanPost
          /\ chan' = Post(Chunk(handlers[id].responseLeft), handlers[id].prevMessage)
          /\ nextId' = nextId + 1
          /\ thisBotMessages' = SeqAdd(thisBotMessages, nextId)
          /\ replyLog' = IF handlers[id].prevMessage = id
                         THEN Append(replyLog, handlers[id].message.seq) ELSE replyLog
          /\ IF AfterChunk(handlers[id].responseLeft) = 0
             THEN /\ currentProcessingMessaged' = currentProcessingMessaged - 1
                  /\ handlers' = Remove(handlers, id)
             ELSE /\ handlers' = [handlers EXCEPT
                         ![id].responseLeft = AfterChunk(handlers[id].responseLeft),
                         ![id].prevMessage = nextId]
                  /\ UNCHANGED currentProcessingMessaged
          /\ UNCHANGED faults
       \/ /\ CanFail \/ ~CanPost
          /\ CountFault
          /\ handlers' = Remove(handlers, id)
          /\ UNCHANGED <<chan, nextId, thisBotMessages, currentProcessingMessaged, replyLog>>
    /\ UNCHANGED <<NotM, variant, gw, arrivals, allMessages, needShutdown, polling, exited,
                   now, advances>>

\* A walk that marks its start and does not follow the reference: C21 fails with it.
WalkStartOnly(lastChainId, r) ==
    IF lastChainId \in DOMAIN allMessages
    THEN [r EXCEPT !.useful = r.useful \cup {lastChainId}]
    ELSE [r EXCEPT !.own = SeqDelete(r.own, lastChainId)]
\* One backward walk of the sweeper from lastChainId: r.useful is usefulMessages,
\* r.own is thisBotMessages.
RECURSIVE WalkUseful(_, _)
WalkUseful(lastChainId, r) ==
    IF lastChainId \in r.useful THEN r
    ELSE IF lastChainId \notin DOMAIN allMessages
    THEN [r EXCEPT !.own = SeqDelete(r.own, lastChainId)]
    ELSE LET marked == [r EXCEPT !.useful = r.useful \cup {lastChainId}]
         IN IF allMessages[lastChainId].referenceMessageId = 0 THEN marked
            ELSE WalkUseful(allMessages[lastChainId].referenceMessageId, marked)

\* for (const messageId of [...thisBotMessages].reverse()) { ...walk... }
RECURSIVE WalkAll(_, _)
WalkAll(starts, r) ==
    IF starts = <<>> THEN r ELSE WalkAll(Tail(starts), WalkUseful(Head(starts), r))

UsefulWalks == WalkAll(Reverse(thisBotMessages), [useful |-> {}, own |-> thisBotMessages])

\* The short lifetime for every record: C20 fails with it.
ShortLifetime(id, useful) == unusefulMessagesLifetime
\* const lifetime = isUseful ? usefulMessagesLifetime : unusefulMessagesLifetime;
Lifetime(id, useful) == IF id \in useful THEN usefulMessagesLifetime
                        ELSE unusefulMessagesLifetime
\* if (message.time + lifetime < now) forDeletion.push(messageId);
ForDeletion(useful) ==
    {id \in DOMAIN allMessages : allMessages[id].time + Lifetime(id, useful) < now}

\* One iteration of infiniteCleanMessages after its hourly sleep.
Sweep ==
    /\ variant = "m0603"
    /\ ~exited
    /\ DOMAIN allMessages # {}
    /\ thisBotMessages' = UsefulWalks.own
    /\ allMessages' = [id \in DOMAIN allMessages \ ForDeletion(UsefulWalks.useful)
                          |-> allMessages[id]]
    /\ UNCHANGED <<NotM, variant, gw, chan, nextId, arrivals, faults, handlers, needShutdown,
                   currentProcessingMessaged, polling, exited, now, advances, replyLog>>

\* Time passes.
ClockSteps == {HOUR, unusefulMessagesLifetime, usefulMessagesLifetime}
\* The clock stays in the range where time + lifetime is a 32-bit integer.
MaxNow == 2 * usefulMessagesLifetime
ClockAdvance(d) ==
    /\ variant = "m0603"
    /\ ~exited
    /\ advances < MaxAdvances
    /\ now + d <= MaxNow
    /\ now' = now + d
    /\ advances' = advances + 1
    /\ UNCHANGED <<NotM, variant, gw, chan, nextId, arrivals, faults, thisBotMessages,
                   allMessages, handlers, needShutdown, currentProcessingMessaged, polling,
                   exited, replyLog>>

\* A signal handler that exits without waiting: C18 fails with it.
ExitAtOnce == TRUE
\* while (currentProcessingMessaged > 0) await sleep; the loop is left when
MayExit == currentProcessingMessaged = 0

\* process.on('SIGINT') / process.on('SIGTERM'): the flag, then the polling loop,
\* which exits at once when nothing is in flight.
Signal ==
    /\ variant = "m0603"
    /\ ~exited
    /\ ~needShutdown
    /\ needShutdown' = TRUE
    /\ IF ~MayExit
       THEN polling' = TRUE /\ UNCHANGED exited
       ELSE exited' = TRUE /\ UNCHANGED polling
    /\ UNCHANGED <<NotM, variant, gw, chan, nextId, arrivals, faults, thisBotMessages,
                   allMessages, handlers, currentProcessingMessaged, now, advances, replyLog>>

\* The polling loop wakes from its 100 ms sleep with nothing in flight: process.exit(0).
PollExit ==
    /\ variant = "m0603"
    /\ ~exited
    /\ polling
    /\ MayExit
    /\ exited' = TRUE
    /\ polling' = FALSE
    /\ UNCHANGED <<NotM, variant, gw, chan, nextId, arrivals, faults, thisBotMessages,
                   allMessages, handlers, needShutdown, currentProcessingMessaged, now,
                   advances, replyLog>>

\* ------------------------------------------------ timers and the cache

\* The setInterval callback: if (!loadingMessage.editable) return;
\* loadingMessage.edit(LOADING_FRAMES[frameIndex % LOADING_FRAMES.length]); frameIndex++;
FrameTick(h) ==
    /\ h \in DOMAIN intervals
    /\ intervals[h] <= MaxTicks
    /\ Alive(h)
    /\ inflight' = inflight \cup {<<h, intervals[h] % NUM_LOADING_FRAMES>>}
    /\ intervals' = [intervals EXCEPT ![h] = @ + 1]
    /\ UNCHANGED <<QueueSide, chan, nextId, faults, workers, originalToReplyMap, messageCache,
                   thisBotMessages, timeouts, placeholders, expired>>

\* The gateway applies a frame edit that the interval callback issued.  The
\* callback does not await the promise of loadingMessage.edit, so the program
\* goes on while the request is under way; the edit of a message that is gone
\* is rejected, and nothing handles the rejection.
FrameLand(h, f) ==
    /\ <<h, f>> \in inflight
    /\ inflight' = inflight \ {<<h, f>>}
    /\ chan' = IF Alive(h) THEN Edit(h, Frame(f)) ELSE chan
    /\ UNCHANGED <<QueueSide, nextId, faults, workers, originalToReplyMap, messageCache,
                   thisBotMessages, intervals, timeouts, placeholders, expired>>

\* MAX_LOADING_DURATION_MS have passed since the placeholder h of the first
\* variant was posted, which sets no timer for it.
DurationElapsedV1(h) ==
    /\ variant = "v1"
    /\ h \in DOMAIN intervals
    /\ h \notin expired
    /\ expired' = expired \cup {h}
    /\ UNCHANGED <<QueueSide, chan, nextId, faults, workers, originalToReplyMap, messageCache,
                   thisBotMessages, intervals, timeouts, placeholders, inflight>>

\* The setTimeout callback, MAX_LOADING_DURATION_MS after the placeholder was
\* posted: clearInterval(loadingInterval)
LoadingTimeout(h) ==
    /\ h \in timeouts
    /\ timeouts' = timeouts \ {h}
    /\ intervals' = Remove(intervals, h)
    /\ expired' = expired \cup {h}
    /\ UNCHANGED <<QueueSide, chan, nextId, faults, workers, originalToReplyMap, messageCache,
                   thisBotMessages, placeholders, inflight>>

\* An entry leaves the LRU cache (ttl of one hour, or capacity).
\* The cache is read by the chain walk alone, so the model lets entries leave
\* while a walk is under way.
CacheExpire(id) ==
    /\ id \in DOMAIN messageCache
    /\ \E w \in Workers : workers[w].pc \in {"gen_chan", "walk", "walk_fetch"}
    /\ CanFail
    /\ CountFault
    /\ messageCache' = Remove(messageCache, id)
    /\ UNCHANGED <<QueueSide, chan, nextId, workers, originalToReplyMap,
                   thisBotMessages, intervals, timeouts, placeholders, inflight, expired>>

\* ------------------------------------------------------- specification
References == {0} \cup MsgIds \cup BotIds

InitOutsideCache ==
    /\ gw = EmptyMap
    /\ chan = EmptyMap
    /\ nextId = FirstBotId
    /\ arrivals = 0
    /\ faults = 0
    /\ messageQueue = <<>>
    /\ isProcessingQueue = FALSE
    /\ workers = [w \in Workers |-> NoWorker]
    /\ processedMessages = {}
    /\ originalToReplyMap = EmptyMap
    /\ messageCache = EmptyMap
    /\ intervals = EmptyMap
    /\ timeouts = {}
    /\ placeholders = EmptyMap
    /\ inflight = {}
    /\ expired = {}
    /\ pass = NoMsg
    /\ ownHandled = {}
    /\ retryTimers = {}
    /\ handlers = EmptyMap
    /\ needShutdown = FALSE
    /\ currentProcessingMessaged = 0
    /\ polling = FALSE
    /\ exited = FALSE
    /\ now = 0
    /\ advances = 0
    /\ replyLog = <<>>
InitCommon == InitOutsideCache /\ allMessages = EmptyMap

NoPoints == [a \in Users |-> 0]
\* The first variant starts at the beginning of a window of the limiter, or later
\* in a window in which the author has sent events with untranslatable text:
\* such an event consumes a point and leaves no other trace in the program.
InitV1 ==
    /\ variant = "v1"
    /\ thisBotMessages = {}
    /\ consumed \in [Users -> {0, RATE_LIMIT_POINTS - 1}]
    /\ passed = consumed
    /\ InitCommon
InitV2 == variant = "v2" /\ thisBotMessages = {} /\ consumed = NoPoints /\ passed = NoPoints
          /\ InitCommon
InitM == variant = "m0603" /\ thisBotMessages = <<>> /\ consumed = NoPoints
         /\ passed = NoPoints /\ InitCommon
Init == InitV1 \/ InitV2 \/ InitM

NextV2 ==
    \/ \E id \in MsgIds, a \in Users, t \in UserTexts, r \in References :
            MessageCreateV2(id, a, t, r)
    \/ \E b \in BotIds : OwnMessageCreateV2(b)
    \/ \E id \in MsgIds, t \in UserTexts : MessageUpdateV2(id, t)
    \/ \E w \in Workers :
        \/ ProcessNextV2(w)
        \/ WarnDoneV2(w)
        \/ PlaceholderDoneV2(w)
        \/ FetchChannelDoneV2(w)
        \/ WalkStepV2(w)
        \/ WalkFetchDoneV2(w)
        \/ \E r \in Responses : ModelDoneV2(w, r)
        \/ ModelFailV2(w)
        \/ DeleteNotNeededV2(w)
        \/ ReuseFetchDoneV2(w)
        \/ ReuseEditDoneV2(w)
        \/ ReuseDeleteDoneV2(w)
        \/ FinalEditDoneV2(w)
        \/ ErrorFetchDoneV2(w)
        \/ ErrorReuseEditDoneV2(w)
        \/ ErrorEditDoneV2(w)
        \/ ErrorReplyDoneV2(w)
    \/ \E h \in BotIds : FrameTick(h)
    \/ \E h \in BotIds, f \in 0..(NUM_LOADING_FRAMES - 1) : FrameLand(h, f)
    \/ \E h \in BotIds : LoadingTimeout(h)
    \/ \E id \in MsgIds \cup BotIds : CacheExpire(id)

NextV1 ==
    \/ \E id \in MsgIds, a \in Users \cup {OtherBot}, t \in UserTexts, r \in References :
            MessageCreateV1(id, a, t, r)
    \/ \E b \in BotIds : OwnMessageCreateV1(b)
    \/ \E id \in MsgIds, t \in UserTexts : MessageUpdateV1(id, t)
    \/ \E m \in retryTimers : RetryTimerV1(m)
    \/ \E a \in Users : WindowEnd(a)
    \/ \E w \in Workers :
        \/ ProcessNextV1(w)
        \/ WarnDoneV1(w)
        \/ PlaceholderDoneV1(w)
        \/ \E r \in Responses : GenerateDoneV1(w, r)
        \/ GenerateFailV1(w)
        \/ FinalEditDoneV1(w)
        \/ ChunkEditDoneV1(w)
        \/ ChunkReplyDoneV1(w)
        \/ ErrorEditDoneV1(w)
    \/ \E h \in BotIds : FrameTick(h)
    \/ \E h \in BotIds, f \in 0..(NUM_LOADING_FRAMES - 1) : FrameLand(h, f)
    \/ \E h \in BotIds : DurationElapsedV1(h)

NextM ==
    \/ \E id \in MsgIds, a \in Users \cup {OtherBot}, t \in UserTexts, r \in References :
            MessageCreateM(id, a, t, r)
    \/ \E b \in BotIds : OwnMessageCreateM(b)
    \/ \E id \in MsgIds :
        \/ FetchChannelDoneM(id)
        \/ \E r \in Responses : ModelDoneM(id, r)
        \/ ModelFailM(id)
        \/ ReplyDoneM(id)
        \/ ChunkReplyDoneM(id)
    \/ Sweep
    \/ \E d \in ClockSteps : ClockAdvance(d)
    \/ Signal
    \/ PollExit

Next == NextV1 \/ NextV2 \/ NextM

Spec == Init /\ [][Next]_vars
SpecV1 == InitV1 /\ [][NextV1]_vars
SpecV2 == InitV2 /\ [][NextV2]_vars
SpecM == InitM /\ [][NextM]_vars

\* The sweeper alone, started on every content of allMessages and thisBotMessages
\* over MaxCache ids: a record references nothing (0), itself, another record or
\* an id that is not cached; an own id is cached or not.
CacheIds == 1..MaxCache
CachedRecord(id, r) == MessageData([id |-> id, reference |-> r, author |-> "u1",
                                    text |-> Text("alpha", 5)], 0)
Caches == UNION {{[id \in D |-> CachedRecord(id, refs[id])] : refs \in [D -> {0} \cup CacheIds]}
                 : D \in SUBSET CacheIds}
OwnOrders == {q \in UNION {[1..n -> CacheIds] : n \in 0..MaxCache} :
                 \A i, j \in DOMAIN q : i # j => q[i] # q[j]}
InitSweep == /\ variant = "m0603"
             /\ allMessages \in Caches
             /\ thisBotMessages \in OwnOrders
             /\ consumed = NoPoints /\ passed = NoPoints
             /\ InitOutsideCache
NextSweep == Sweep \/ \E d \in ClockSteps : ClockAdvance(d)
SpecSweep == InitSweep /\ [][NextSweep]_vars
\* the two variants of _main.js, which share the queue
SpecQueue == (InitV1 \/ InitV2) /\ [][NextV1 \/ NextV2]_vars

\* ================================================================ claims

\* ---- C1
\* C1: replies are posted in the order in which their triggering events arrived:
\* when event A arrives before event B and both get a reply, the reply to A is
\* posted before the reply to B.  replyLog lists the arrival numbers of the
\* events in the order of their (first) replies, so it is to be increasing.
C1_RepliesInArrivalOrder ==
    \A i, j \in 1..Len(replyLog) : i < j => replyLog[i] < replyLog[j]

\* ---- C2
\* C2: no failure of one event leaves the queue non-empty with no consumer
\* running: whenever messageQueue holds an event, a processQueue invocation is
\* alive to dequeue it.
C2_QueueHasConsumer ==
    messageQueue # <<>> => \E w \in Workers : Running(w)

\* ---- C3
RunningWorkers == {w \in Workers : Running(w)}
\* C3: at every moment at most one processQueue loop exists, hence at most one
\* handleMessage invocation is in progress, and an item is handed to handleMessage
\* only in a step before which no handleMessage invocation was in progress.
C3_SingleWorker ==
    /\ [](Cardinality(RunningWorkers) <= 1)
    /\ [][pass' # pass => \A w \in Workers : ~InHandler(w)]_vars
\* An event arrived while handleMessage was in progress for an earlier one.
C3_Witness ==
    /\ messageQueue # <<>>
    /\ \E w \in Workers : InHandler(w)

\* ---- C4
\* The reference of a message as the gateway has it (0: no reference, or no message).
RefOf(id) == IF id \in DOMAIN gw THEN gw[id].reference
             ELSE IF id \in DOMAIN chan THEN chan[id].replyTo
             ELSE 0
\* The reply chain from id: id, its parent, ..., cut after n messages.
RECURSIVE ChainFrom(_, _)
ChainFrom(id, n) ==
    IF n = 0 \/ id = 0 THEN <<>> ELSE <<id>> \o ChainFrom(RefOf(id), n - 1)
ChainOf(id) == ChainFrom(id, MaxDialog)
\* The chain from id ends at a root within MaxDialog messages, all of which the
\* walk found: they are in the cache when the walk is over.
FullyResolved(id) ==
    /\ RefOf(ChainOf(id)[Len(ChainOf(id))]) = 0
    /\ \A i \in 1..Len(ChainOf(id)) : ChainOf(id)[i] \in DOMAIN messageCache
TurnIds(dialog, n) == [i \in 1..n |-> dialog[i].id]
\* C4: when generateResponse calls the language model for a leaf whose chain of
\* depth N is fully resolved, the dialog has exactly N+1 entries: the N message
\* turns oldest-first (root first, leaf last), then the instruction turn.
C4_DialogOldestFirst ==
    \A w \in Workers :
        (workers[w].pc = "lm" /\ FullyResolved(workers[w].message.id)) =>
            LET chain == ChainOf(workers[w].message.id)
                dialog == workers[w].dialog
            IN /\ Len(dialog) = Len(chain) + 1
               /\ TurnIds(dialog, Len(chain)) = Reverse(chain)
               /\ dialog[Len(dialog)] = SystemTurn
\* The language model is called for a leaf with a fully resolved chain of depth >= 2.
C4_Witness ==
    \E w \in Workers :
        /\ workers[w].pc = "lm"
        /\ FullyResolved(workers[w].message.id)
        /\ Len(ChainOf(workers[w].message.id)) >= 2

\* ---- C5
\* C5: the dialog collected by the chain walk contains no message id more than once.
C5_NoRepeatedId ==
    \A w \in Workers : \A i, j \in 1..Len(workers[w].dialog) :
        (i < j /\ workers[w].dialog[i].id # 0) =>
            workers[w].dialog[i].id # workers[w].dialog[j].id

\* ---- C6
\* C6: a record that is gone when generation reaches it raises no exception:
\* while no external call has failed, no handler holds the text that the catch
\* block of generateResponse produces.
C6_NoExceptionOnMissingRecord ==
    \A id \in DOMAIN handlers : handlers[id].response = APOLOGY => faults > 0

\* ---- C7
\* C7: every active frame-advance interval belongs to a handleMessage invocation
\* that is in progress: once an invocation has completed, by whatever exit path,
\* the interval it started is no longer active.
C7_NoTimerLeak ==
    \A h \in DOMAIN intervals :
        \E w \in Workers : InHandler(w) /\ workers[w].loadingInterval = h
\* A handleMessage invocation that had posted its placeholder (and so started its
\* interval) has ended with an exception.
C7_Witness ==
    /\ <<pass.id, pass.ver>> \in DOMAIN placeholders
    /\ \E w \in Workers : workers[w].pc = "dead"

\* ---- C8
\* C8: at most one placeholder is ever posted for a message id without an edit
\* of the message in between (placeholders counts them per id and version).
C8_OnePlaceholder ==
    \A k \in DOMAIN placeholders : placeholders[k] <= 1

\* ---- C9
\* The step hands an item to handleMessage.
PassStep == pass' # pass
\* The invocation that the step started has returned within the step, without a
\* reply, a placeholder or a write to the cache; with no invocation in progress
\* after the step, it makes no call later either.
SilentReturn ==
    /\ \A w \in Workers : workers'[w].pc \in {"none", "loop", "dead"}
    /\ chan' = chan
    /\ placeholders' = placeholders
    /\ messageCache' = messageCache
\* C9: every event of a non-bot author whose text has MAX_MESSAGE_LENGTH
\* characters or more is answered with the length warning (the invocation is at
\* the reply of the warning after the step), whatever the limiter and the other
\* checks say, and writes no cache entry and posts no placeholder.
C9_OversizedWarned ==
    [][(PassStep /\ pass'.author \notin Bots /\ pass'.text.len >= MAX_MESSAGE_LENGTH) =>
          /\ \E w \in Workers : workers'[w].pc = "warn" /\ workers'[w].message = pass'
          /\ messageCache' = messageCache
          /\ placeholders' = placeholders]_vars

\* ---- C10
\* The limiter denies the event that the step hands to handleMessage: the author
\* has used up the budget of the window.
Denied == variant = "v1" /\ consumed[pass'.author] >= RATE_LIMIT_POINTS
WithinBudget == \A a \in Users : passed'[a] <= RATE_LIMIT_POINTS
\* C10 as stated: an event denied by the limiter and an event with untranslatable
\* text both leave no trace, and at most RATE_LIMIT_POINTS events of an author
\* get past the limiter in one window.
C10_SilentRejection ==
    [][/\ (PassStep /\ pass'.author \notin Bots
             /\ (Denied \/ ~isTranslatableText(pass'.text))) => SilentReturn
       /\ WithinBudget]_vars
\* C10, amended: as above, for untranslatable text shorter than MAX_MESSAGE_LENGTH
\* (longer text gets the length warning, translatable or not).
C10_SilentRejectionBelowMax ==
    [][/\ (PassStep /\ pass'.author \notin Bots
             /\ (Denied \/ (~isTranslatableText(pass'.text)
                              /\ pass'.text.len < MAX_MESSAGE_LENGTH))) => SilentReturn
       /\ WithinBudget]_vars
\* The limiter has denied the latest event: its author is past the budget.
C10_Witness ==
    /\ variant = "v1"
    /\ pass.author \in Users
    /\ consumed[pass.author] > RATE_LIMIT_POINTS

\* ---- C11
\* C11: every edit event of a user message with content is processed through the
\* same steps as a creation event, whatever became of the earlier processing of
\* its id: when handleMessage of the second variant is handed an edited message
\* (ver > 0) whose new text is within the length limit and translatable, it
\* updates the cache with the new text and goes on to post the placeholder.
C11_EditsReenter ==
    [][(PassStep /\ variant = "v2" /\ pass'.author \notin Bots /\ pass'.ver > 0
          /\ pass'.text.len < MAX_MESSAGE_LENGTH /\ isTranslatableText(pass'.text)) =>
          /\ \E w \in Workers : workers'[w].pc = "ph" /\ workers'[w].message = pass'
          /\ pass'.id \in DOMAIN messageCache'
          /\ messageCache'[pass'.id] = CacheRecord(pass')]_vars

\* ---- C12
\* C12: once the event of a message that the pipeline posted itself has been
\* handled, the id of the message is in thisBotMessages, no placeholder was
\* posted for it and no handleMessage invocation works on it.
C12_OwnRecorded ==
    \A b \in ownHandled :
        /\ b \in thisBotMessages
        /\ \A k \in DOMAIN placeholders : k[1] # b
        /\ \A w \in Workers : InHandler(w) => workers[w].message.id # b

\* ---- C13
\* The step is the failure of the placeholder post of the invocation of worker w.
PlaceholderFails(w) ==
    /\ workers[w].pc = "ph"
    /\ workers'[w].pc # "ph"
    /\ chan' = chan
\* C13: when the post of the placeholder fails, the event is scheduled for
\* re-enqueueing with retryCount incremented by one while retryCount is below
\* MAX_RETRY_ATTEMPTS and is dropped otherwise; the failed attempt ends the
\* invocation without a call of the language model; no scheduled or queued item
\* has a retryCount above MAX_RETRY_ATTEMPTS.
C13_BoundedRetry ==
    [][/\ \A w \in Workers : PlaceholderFails(w) =>
             /\ retryTimers' = IF workers[w].message.retryCount < MAX_RETRY_ATTEMPTS
                               THEN retryTimers \cup
                                      {[workers[w].message EXCEPT
                                          !.retryCount = @ + 1, !.plain = TRUE]}
                               ELSE retryTimers
             /\ workers[w].message.retryCount < MAX_RETRY_ATTEMPTS =>
                   retryTimers' # retryTimers
             /\ workers'[w].pc = "loop"
       /\ \A m \in retryTimers' : m.retryCount <= MAX_RETRY_ATTEMPTS
       /\ \A i \in 1..Len(messageQueue') :
             messageQueue'[i].retryCount <= MAX_RETRY_ATTEMPTS]_vars

\* ---- C14
\* After the step the message id shows the fixed error text.
ShowsError(id) ==
    /\ id \in DOMAIN chan'
    /\ chan'[id].alive
    /\ chan'[id].text = ERROR_MESSAGE
\* C14: a failure of the language-model call after the placeholder was posted is
\* caught inside handleMessage: when the invocation that caught it ends, it ends
\* without raising (the worker is back at its loop) and the placeholder, or the
\* earlier reply that is reused, shows ERROR_MESSAGE.
C14_ModelFailureCaught ==
    [][\A w \in Workers :
          (workers[w].err = "lm" /\ InHandler(w)
             /\ workers'[w].pc \in {"none", "loop", "dead"}) =>
             /\ workers'[w].pc = "loop"
             /\ \/ ShowsError(workers[w].loadingMessage)
                \/ /\ workers[w].message.id \in DOMAIN originalToReplyMap
                   /\ ShowsError(originalToReplyMap[workers[w].message.id])]_vars

\* ---- C15
\* The step ends the invocation of worker w on its sentinel branch.
SentinelEnds(w) ==
    /\ workers[w].pc = "del_sentinel"
    /\ workers'[w].pc # "del_sentinel"
\* The id is not recorded as own and is the reply of no event.
NotRecorded(id) ==
    /\ id \notin thisBotMessages'
    /\ \A k \in DOMAIN originalToReplyMap' : originalToReplyMap'[k] # id
    /\ originalToReplyMap' = originalToReplyMap
DeliveryEnds(w) ==
    /\ InHandler(w)
    /\ workers[w].response # NoResp
    /\ ~NotNeeded(workers[w].response)
    /\ workers[w].err = "none"
    /\ workers'[w].pc = "loop"
\* The messages that carry the response to event id after the step.
ResponseMessages(id) ==
    {b \in DOMAIN chan' : chan'[b].alive /\ chan'[b].replyTo = id /\ chan'[b].text.kind = "resp"}
\* C16: once handleMessage has completed after a successful, non-sentinel
\* generation, every message that carries the response (the finalized
\* placeholder and every further chunk) is in thisBotMessages.
C16_ResponseRecordedOwn ==
    [][\A w \in Workers : DeliveryEnds(w) =>
          /\ ResponseMessages(workers[w].message.id) # {}
          /\ ResponseMessages(workers[w].message.id) \subseteq thisBotMessages']_vars

\* ---- C17
\* The step posts a later chunk of the response of the invocation of worker w.
PostsChunk(w) ==
    /\ workers[w].pc = "chunk_reply"
    /\ nextId' = nextId + 1
\* The characters of the response not delivered after the step.
LeftAfter(w) == IF workers'[w].pc = "chunk_reply" THEN workers'[w].responseLeft ELSE 0
\* C17: a response longer than MAX_DISCORD_MESSAGE_LENGTH is delivered in chunks:
\* the first replaces the placeholder, no chunk exceeds the limit, each chunk
\* takes the next characters of the response (so the chunks in posting order
\* make up the response), and every later chunk is posted as a reply to the
\* chunk posted immediately before it.
C17_ChunksChained ==
    [][\A w \in Workers :
          /\ (workers[w].pc = "chunk_edit" /\ chan' # chan) =>
                /\ chan'[workers[w].loadingMessage].text.len <= MAX_DISCORD_MESSAGE_LENGTH
                /\ chan'[workers[w].loadingMessage].text.len + LeftAfter(w)
                     = workers[w].response.len
          /\ PostsChunk(w) =>
                /\ chan'[nextId].text.len <= MAX_DISCORD_MESSAGE_LENGTH
                /\ chan'[nextId].text.len + LeftAfter(w) = workers[w].responseLeft
                /\ chan'[nextId].replyTo = workers[w].prevMessage]_vars

\* ---- C18
\* C18: once a termination signal has set needShutdown, no event begins
\* processing (the in-flight counter is not incremented and no handler starts,
\* so no call of the language model and no reply is made for it), and the
\* process has exited only with the in-flight counter at zero and no handler in
\* the middle of its processing.
C18_ShutdownSafety ==
    /\ [](exited => (currentProcessingMessaged = 0 /\ DOMAIN handlers = {}))
    /\ [][needShutdown =>
            /\ currentProcessingMessaged' <= currentProcessingMessaged
            /\ DOMAIN handlers' \subseteq DOMAIN handlers]_vars
\* The process has exited after an event was answered, and a translatable event
\* of a user that arrived after the signal was not taken up.
C18_Witness ==
    /\ exited
    /\ replyLog # <<>>
    /\ now = 0
    /\ \E id \in DOMAIN gw :
          /\ gw[id].author \in Users
          /\ isTranslatableText0603(gw[id].text)
          /\ gw[id].text.len < DISCORD_LIMIT_0603
          /\ id \notin DOMAIN allMessages

\* ---- C19
\* C19: the in-flight counter is back at zero whenever no event is being
\* processed, whether the processing ended in success or in a failure, so that
\* the wait loop of a termination signal can be left and the process exits.
C19_CounterReturnsToZero == (DOMAIN handlers = {}) => (currentProcessingMessaged = 0)

\* ---- C20
\* The records met by walking back from own message b along referenceMessageId,
\* as far as the records are in the cache.
\* seen holds the records met so far: a record met again ends the walk.
RECURSIVE Backward(_, _)
Backward(id, seen) ==
    IF id \notin DOMAIN allMessages \/ id \in seen THEN seen
    ELSE IF allMessages[id].referenceMessageId = 0 THEN seen \cup {id}
    ELSE Backward(allMessages[id].referenceMessageId, seen \cup {id})
\* The useful set of a sweep that runs in the current state.
UsefulSet == UNION {Backward(thisBotMessages[i], {}) : i \in 1..Len(thisBotMessages)}
\* The records whose age exceeds their applicable lifetime.
Expired ==
    {id \in DOMAIN allMessages :
        now - allMessages[id].time >
            (IF id \in UsefulSet THEN 7 * 24 * HOUR ELSE 24 * HOUR)}
\* A step that takes records out of the cache.
DeletionStep == /\ DOMAIN allMessages' # DOMAIN allMessages
                /\ DOMAIN allMessages' \subseteq DOMAIN allMessages

\* C20: a sweep of infiniteCleanMessages deletes a cached record if and only if
\* its age (now minus its creation time) exceeds its lifetime, 7 days for a
\* record of the useful set of that sweep and 24 hours for every other record;
\* every other record stays in the cache with its content unchanged, whatever
\* record it references or is referenced by.
C20_DifferentialRetention ==
    /\ []((variant = "m0603" /\ DOMAIN allMessages # {}) =>
            ForDeletion(UsefulWalks.useful) = Expired)
    /\ [][DeletionStep =>
            allMessages' = [id \in DOMAIN allMessages \ Expired |-> allMessages[id]]]_vars
\* A sweep has deleted a record that a record still in the cache references.
C20_Witness ==
    /\ ~needShutdown
    /\ \E id \in DOMAIN allMessages :
          LET r == allMessages[id].referenceMessageId IN
          /\ r \in DOMAIN gw
          /\ r \notin DOMAIN allMessages
          /\ isTranslatableText0603(gw[r].text)
          /\ gw[r].text.len < DISCORD_LIMIT_0603

\* ---- C21
\* The cached ids reachable from the set S of cached ids along referenceMessageId
\* through cached records, as the least fixed point.
RECURSIVE Closure(_)
Closure(S) ==
    LET T == S \cup ({allMessages[i].referenceMessageId : i \in S} \cap DOMAIN allMessages)
    IN IF T = S THEN S ELSE Closure(T)
Reachable == Closure(SeqSet(thisBotMessages) \cap DOMAIN allMessages)
\* Record id lies on a cycle of references.
OnCycle(id) == id \in Closure({allMessages[id].referenceMessageId} \cap DOMAIN allMessages)

\* C21: for every content of the cache and of the own-message set, with cycles
\* and with dangling references, the useful-set computation of a sweep ends and
\* yields exactly the cached ids reachable from a cached own id along
\* referenceMessageId through cached records.
C21_UsefulIsReachable == (variant = "m0603") => (UsefulWalks.useful = Reachable)
\* A sweep over a cache where a walk runs into a cycle, a later walk starts at an
\* id that is already marked, an own id is not cached, and a cached record is not
\* useful or references an id that is not cached.
C21_Witness ==
    /\ advances > 0
    /\ \E a, b \in SeqSet(thisBotMessages) \cap DOMAIN allMessages :
          a # b /\ OnCycle(a) /\ b \in Closure({a})
    /\ SeqSet(thisBotMessages) \ DOMAIN allMessages # {}
    /\ UsefulWalks.own # thisBotMessages

\* ---- C22
\* The message a dialog turn was built from was posted by the pipeline itself.
OwnAuthored(id) == id \in DOMAIN chan

\* C22: in every dialog built by the chain walk a turn has role assistant
\* exactly when the message it was built from was authored by the pipeline
\* (a finalized reply, a length warning, an error text), and role user otherwise,
\* for records found in the cache and for records fetched on a cache miss.
C22_RoleByAuthor ==
    \A w \in Workers : \A i \in 1..Len(workers[w].dialog) :
        LET turn == workers[w].dialog[i]
        IN turn.id # 0 => (turn.role = "assistant" <=> OwnAuthored(turn.id))

\* ---- C24
\* The interval callback of placeholder h issues a frame edit in this step.
FrameIssued(h) ==
    /\ h \in DOMAIN intervals
    /\ h \in DOMAIN intervals'
    /\ intervals'[h] = intervals[h] + 1

\* C24: the animation of a placeholder has a bounded lifetime: no frame edit is
\* issued for a placeholder later than MAX_LOADING_DURATION_MS (10 s) after it
\* was posted, even when the call of the language model has not returned.
C24_AnimationCapped == [][\A h \in BotIds : FrameIssued(h) => h \notin expired]_vars

\* ---- C25
\* Message h shows a frame of the progress animation.
ShowsFrame(c, h) == c[h].text.kind = "frame"

\* C25: the terminal write wins: whatever the interleaving of the un-awaited
\* frame edits with the terminal edit of handleMessage (final text or error
\* text), no progress frame is applied to a placeholder after its terminal
\* edit, so a placeholder that shows its terminal text keeps showing it.
C25_TerminalWriteWins ==
    [][\A h \in DOMAIN chan : ~ShowsFrame(chan, h) => ~ShowsFrame(chan', h)]_vars

\* ---- C23
\* The invocation of worker w for a message with a recorded reply ends in this
\* step after a result (a generated text or an error), the earlier reply existing.
ReusePassEnds(w) ==
    /\ workers[w].hasReply
    /\ workers[w].pc \in {"reuse_del", "err_reuse_del", "final_edit", "err_edit"}
    /\ workers'[w].pc = "loop"
    /\ chan'[originalToReplyMap[workers[w].message.id]].alive
\* The result of the pass of worker w: the generated text, or the error text.
ResultOf(w) == IF workers[w].err = "none" THEN workers[w].response ELSE ERROR_MESSAGE
\* The messages of the pipeline that are posted as replies to message id.
RepliesTo(c, id) == {b \in DOMAIN c : c[b].alive /\ c[b].replyTo = id}

\* C23: when a message that already has a recorded reply is processed again and
\* that reply still exists, the result of the pass (the generated text, or the
\* error text) is in the earlier reply, the placeholder of the pass is deleted
\* and the mapping is unchanged, so that exactly one reply of the pipeline
\* exists for the message after the pass.
C23_EditReuse ==
    [][\A w \in Workers : ReusePassEnds(w) =>
          LET id == workers[w].message.id
              earlier == originalToReplyMap[id]
          IN /\ chan'[earlier].text = ResultOf(w)
             /\ workers[w].loadingMessage # 0 => ~chan'[workers[w].loadingMessage].alive
             /\ originalToReplyMap' = originalToReplyMap
             /\ RepliesTo(chan', id) = {earlier}]_vars

====
